---- MODULE Spec2Model ----
(***************************************************************************)
(* A model of linux-ls-parser (src/src/lib.rs): the parser of `ls -lpa`    *)
(* output.  Text is modelled as Rust holds it: a sequence of UTF-8 bytes.  *)
(* The alphabet is ASCII plus the two bytes of one 2-byte character, so    *)
(* the only White_Space characters that occur are the ASCII ones.          *)
(***************************************************************************)
EXTENDS Integers, Sequences, FiniteSets, Bags, TLC

VARIABLES
    g,        \* how the input was built (kept to state the properties)
    input,    \* the text handed to the operation under check
    pc,       \* position of the running operation
    rest,     \* from_str: lines the `for` loop has not visited yet
    files,    \* from_str: the `files` accumulator
    folders,  \* from_str: the `folders` accumulator
    visited,  \* from_str: number of lines handed to parse_line so far
    result    \* what the operation returned ("none" while it runs)

vars == <<g, input, pc, rest, files, folders, visited, result>>

----------------------------------------------------------------------------
(* Bounds of the checked input spaces. *)

MaxLines == 3
MaxRawLen == 4
MaxNameLen == 3
MaxRegionLen == 4

----------------------------------------------------------------------------
(* Text as bytes. *)

\* The UTF-8 byte of an ASCII character written as a one-character string.
Code(c) ==
    CASE c = "\t" -> 9   [] c = "\n" -> 10  [] c = "\r" -> 13  [] c = " " -> 32
      [] c = "\"" -> 34  [] c = "'" -> 39   [] c = "+" -> 43   [] c = "," -> 44
      [] c = "-" -> 45   [] c = "." -> 46   [] c = "/" -> 47   [] c = "0" -> 48
      [] c = "1" -> 49   [] c = "2" -> 50   [] c = "3" -> 51   [] c = "4" -> 52
      [] c = "5" -> 53   [] c = "6" -> 54   [] c = "7" -> 55   [] c = "8" -> 56
      [] c = "9" -> 57   [] c = ":" -> 58   [] c = ">" -> 62   [] c = "J" -> 74
      [] c = "\\" -> 92  [] c = "a" -> 97   [] c = "b" -> 98   [] c = "c" -> 99
      [] c = "d" -> 100  [] c = "e" -> 101  [] c = "i" -> 105  [] c = "k" -> 107
      [] c = "l" -> 108  [] c = "n" -> 110  [] c = "o" -> 111  [] c = "r" -> 114
      [] c = "t" -> 116  [] c = "u" -> 117  [] c = "w" -> 119  [] c = "x" -> 120
      [] c = "z" -> 122  [] c = "s" -> 115

\* The bytes of an ASCII string literal.
B(s) == [i \in 1..Len(s) |-> Code(SubSeq(s, i, i))]

BACKSLASH == Code("\\")
LF == Code("\n")
CR == Code("\r")
TAB == Code("\t")
SPACE == Code(" ")
QUOTE == Code("\"")
APOSTROPHE == Code("'")
SLASH == Code("/")
DOT == Code(".")

\* U+00E9, a character of two bytes (0xC3 0xA9).
EAcute == <<195, 169>>

StartsWith(s, p) == Len(s) >= Len(p) /\ SubSeq(s, 1, Len(p)) = p

EndsWithByte(s, b) == Len(s) >= 1 /\ s[Len(s)] = b

\* s without its first n bytes.
Drop(s, n) == SubSeq(s, n + 1, Len(s))

\* char::is_whitespace on the bytes of the alphabet: U+0009..U+000D, U+0020.
IsWhitespace(b) == b \in 9..13 \/ b = 32

\* Byte-wise lexicographic order, <str as Ord>::cmp; -1, 0 or 1.
RECURSIVE StrCmp(_, _)
StrCmp(a, b) ==
    IF a = <<>> /\ b = <<>> THEN 0
    ELSE IF a = <<>> THEN -1
    ELSE IF b = <<>> THEN 1
    ELSE IF a[1] < b[1] THEN -1
    ELSE IF a[1] > b[1] THEN 1
    ELSE StrCmp(Tail(a), Tail(b))

----------------------------------------------------------------------------
(* Results. *)

Ok(v) == [ok |-> TRUE, val |-> v]

Err(kind) == [ok |-> FALSE, kind |-> kind, token |-> <<>>]

NoResult == [ok |-> FALSE, kind |-> "none", token |-> <<>>]

----------------------------------------------------------------------------
(* Name Decoder. *)

\* EscapedChar without its 'r' arm.
EscapedCharNoReturn(b) ==
    IF b = Code("n") THEN LF
    ELSE IF b = Code("t") THEN TAB
    ELSE b

\* The `match escaped` of unescape_double_quoted.
EscapedChar(b) ==
    IF b = Code("n") THEN LF
    ELSE IF b = Code("r") THEN CR
    ELSE IF b = Code("t") THEN TAB
    ELSE b

\* The `while let` loop of unescape_double_quoted from byte i on, `acc` being
\* `result`.  The loop reads characters; read byte by byte it pushes the same
\* bytes, as no byte of a multi-byte character is a backslash, n, r or t.
RECURSIVE UnescapeFrom(_, _, _)
UnescapeFrom(s, i, acc) ==
    IF i > Len(s) THEN Ok(acc)
    ELSE IF s[i] = BACKSLASH
         THEN IF i + 1 > Len(s)
              THEN Err("InvalidEscapeSequence")
              ELSE UnescapeFrom(s, i + 2, Append(acc, EscapedChar(s[i + 1])))
         ELSE UnescapeFrom(s, i + 1, Append(acc, s[i]))

unescape_double_quoted(s) == UnescapeFrom(s, 1, <<>>)

\* &raw[1..raw.len() - 1]
Interior(raw) == SubSeq(raw, 2, Len(raw) - 1)

\* DoubleQuotedName without its check for an empty value.
DoubleQuotedNameAllowEmpty(raw) == unescape_double_quoted(Interior(raw))

DoubleQuotedName(raw) ==
    LET value == unescape_double_quoted(Interior(raw))
    IN  IF ~value.ok THEN value
        ELSE IF value.val = <<>> THEN Err("EmptyQuotedName")
        ELSE Ok(value.val)

SingleQuotedName(raw) ==
    IF Interior(raw) = <<>> THEN Err("EmptyQuotedName") ELSE Ok(Interior(raw))

\* parse_name unescaping what is in single quotes too.
ParseNameEscapesSingle(raw) ==
    IF raw = <<>> THEN Err("MissingName")
    ELSE IF Len(raw) >= 2 /\ raw[1] \in {QUOTE, APOSTROPHE} /\ raw[Len(raw)] = raw[1]
         THEN DoubleQuotedName(raw)
    ELSE Ok(raw)

parse_name(raw) ==
    IF raw = <<>> THEN Err("MissingName")
    ELSE IF Len(raw) >= 2 /\ raw[1] = QUOTE /\ raw[Len(raw)] = QUOTE
         THEN DoubleQuotedName(raw)
    ELSE IF Len(raw) >= 2 /\ raw[1] = APOSTROPHE /\ raw[Len(raw)] = APOSTROPHE
         THEN SingleQuotedName(raw)
    ELSE Ok(raw)

----------------------------------------------------------------------------
(* The Name Decoder on its own: every token over NameAlphabet up to         *)
(* MaxRawLen bytes, and every name over LogicalAlphabet up to MaxNameLen    *)
(* bytes written the way a quoting shell writes it.                         *)

AllStrings(alphabet, n) == UNION {[1..k -> alphabet] : k \in 0..n}

NameAlphabet ==
    {QUOTE, APOSTROPHE, BACKSLASH, Code("n"), Code("r"), Code("t"), Code("a"), DOT}

LogicalAlphabet ==
    {QUOTE, APOSTROPHE, BACKSLASH, LF, CR, TAB, Code("n"), Code("a")}

\* How the quoting side writes one byte inside double quotes.
EscByte(b) ==
    IF b = BACKSLASH THEN <<BACKSLASH, BACKSLASH>>
    ELSE IF b = QUOTE THEN <<BACKSLASH, QUOTE>>
    ELSE IF b = LF THEN <<BACKSLASH, Code("n")>>
    ELSE IF b = CR THEN <<BACKSLASH, Code("r")>>
    ELSE IF b = TAB THEN <<BACKSLASH, Code("t")>>
    ELSE <<b>>

RECURSIVE Esc(_)
Esc(s) == IF s = <<>> THEN <<>> ELSE EscByte(s[1]) \o Esc(Tail(s))

DoubleQuoted(s) == <<QUOTE>> \o Esc(s) \o <<QUOTE>>

InitName ==
    /\ pc = "name"
    /\ \/ /\ input \in AllStrings(NameAlphabet, MaxRawLen)
          /\ g = [fam |-> "raw", s |-> <<>>]
       \/ \E s \in AllStrings(LogicalAlphabet, MaxNameLen) :
             /\ input = DoubleQuoted(s)
             /\ g = [fam |-> "escaped", s |-> s]
    /\ rest = <<>>
    /\ files = <<>>
    /\ folders = <<>>
    /\ visited = 0
    /\ result = NoResult

DecodeName ==
    /\ pc = "name"
    /\ result' = parse_name(input)
    /\ pc' = "name_done"
    /\ UNCHANGED <<g, input, rest, files, folders, visited>>

NextName == DecodeName

SpecName == InitName /\ [][NextName]_vars

----------------------------------------------------------------------------
(* Line Classifier. *)

\* The first position from i on whose byte is White_Space (for `want`) or is
\* not (for ~want); Len(s) + 1 when there is none.
RECURSIVE Scan(_, _, _)
Scan(s, i, want) ==
    IF i > Len(s) \/ IsWhitespace(s[i]) = want THEN i ELSE Scan(s, i + 1, want)

\* The last position up to j whose byte is not White_Space; 0 when none.
RECURSIVE ScanBack(_, _)
ScanBack(s, j) ==
    IF j < 1 \/ ~IsWhitespace(s[j]) THEN j ELSE ScanBack(s, j - 1)

\* str::trim: leading and trailing White_Space removed.
Trim(s) == SubSeq(s, Scan(s, 1, FALSE), ScanBack(s, Len(s)))

\* str::split_whitespace: the maximal runs of non-White_Space bytes, in order,
\* from position i on.
RECURSIVE SplitFrom(_, _)
SplitFrom(s, i) ==
    LET from == Scan(s, i, FALSE)
        to   == Scan(s, from, TRUE)
    IN  IF from > Len(s) THEN <<>>
        ELSE <<SubSeq(s, from, to - 1)>> \o SplitFrom(s, to)

split_whitespace(s) == SplitFrom(s, 1)

\* [&str]::join(" ")
RECURSIVE JoinSpace(_)
JoinSpace(parts) ==
    IF parts = <<>> THEN <<>>
    ELSE IF Len(parts) = 1 THEN parts[1]
    ELSE parts[1] \o <<SPACE>> \o JoinSpace(Tail(parts))

\* `while raw_name.ends_with('/') { raw_name.pop(); }`
RECURSIVE PopSlashes(_)
PopSlashes(s) ==
    IF EndsWithByte(s, SLASH) THEN PopSlashes(SubSeq(s, 1, Len(s) - 1)) ELSE s

\* An i64 as its sign and its decimal digits (no leading zero; zero is <<0>>,
\* never negative): the values go up to 2^63, past the checker's integers.
I64(neg, mag) == [neg |-> neg /\ mag # <<0>>, mag |-> mag]

RECURSIVE StripZeros(_)
StripZeros(d) == IF Len(d) > 1 /\ d[1] = 0 THEN StripZeros(Tail(d)) ELSE d

DigitsOf(s) == [i \in 1..Len(s) |-> s[i] - 48]

I64MaxMag == DigitsOf(B("9223372036854775807"))

I64MinMag == DigitsOf(B("9223372036854775808"))

\* mag <= limit, both without leading zeros.
MagLeq(mag, limit) ==
    \/ Len(mag) < Len(limit)
    \/ Len(mag) = Len(limit) /\ StrCmp(mag, limit) <= 0

\* ParseI64 without the check of the range.
ParseI64NoRange(tok) ==
    LET signed == tok # <<>> /\ tok[1] \in {Code("+"), Code("-")}
        neg    == tok # <<>> /\ tok[1] = Code("-")
        digits == IF signed THEN Tail(tok) ELSE tok
    IN  IF digits = <<>> \/ \E i \in 1..Len(digits) : digits[i] \notin 48..57
        THEN Err("ParseIntError")
        ELSE Ok(I64(neg, StripZeros(DigitsOf(digits))))

\* <i64 as FromStr>::from_str: an optional sign, then one or more decimal
\* digits, the value within i64.
ParseI64(tok) ==
    LET signed == tok # <<>> /\ tok[1] \in {Code("+"), Code("-")}
        neg    == tok # <<>> /\ tok[1] = Code("-")
        digits == IF signed THEN Tail(tok) ELSE tok
    IN  IF digits = <<>> \/ \E i \in 1..Len(digits) : digits[i] \notin 48..57
        THEN Err("ParseIntError")
        ELSE LET mag == StripZeros(DigitsOf(digits))
             IN  IF MagLeq(mag, IF neg THEN I64MinMag ELSE I64MaxMag)
                 THEN Ok(I64(neg, mag))
                 ELSE Err("ParseIntError")

\* What parse_line returns, with the source line of the `return` taken.
LineSkip(at) == [tag |-> "skip", at |-> at]

LineErr(kind, tok, at) == [tag |-> "err", kind |-> kind, token |-> tok, at |-> at]

LineFile(name, size) == [tag |-> "file", name |-> name, size |-> size, at |-> 201]

LineFolder(name) == [tag |-> "folder", name |-> name, at |-> 199]

\* SkippedMode without its arm for character devices.
SkippedModeNoCharDevice(file_mode) ==
    IF Len(file_mode) = 10
    THEN CASE file_mode[1] = Code("l") -> 154
           [] file_mode[1] = Code("b") -> 155
           [] OTHER -> 0
    ELSE 0

\* The source line of the `return Ok(None)` a 10-byte mode takes, 0 for none.
SkippedMode(file_mode) ==
    IF Len(file_mode) = 10
    THEN CASE file_mode[1] = Code("l") -> 154
           [] file_mode[1] = Code("b") -> 155
           [] file_mode[1] = Code("c") -> 156
           [] OTHER -> 0
    ELSE 0

\* parse_line from `let mut raw_name` on: `parts` are the columns after the
\* timestamp.
ClassifyName(parts, size) ==
    LET joined       == JoinSpace(parts)
        is_directory == EndsWithByte(joined, SLASH)
        raw_name     == IF is_directory THEN PopSlashes(joined) ELSE joined
        name         == parse_name(raw_name)
    IN  IF joined = <<>> THEN LineErr("MissingName", <<>>, 178)
        ELSE IF ~name.ok THEN LineErr(name.kind, name.token, 188)
        ELSE IF name.val = B(".") \/ name.val = B("..") THEN LineSkip(191)
        ELSE IF is_directory
             THEN IF name.val = <<>> THEN LineSkip(196) ELSE LineFolder(name.val)
             ELSE LineFile(name.val, size)

\* ClassifyColumns with the kinds of the owner and group columns exchanged.
ClassifyColumnsSwapped(parts) ==
    IF Len(parts) < 2 THEN LineErr("MissingLinkCount", <<>>, 162)
    ELSE IF Len(parts) < 3 THEN LineErr("MissingGroup", <<>>, 163)
    ELSE IF Len(parts) < 4 THEN LineErr("MissingOwner", <<>>, 164)
    ELSE IF Len(parts) < 5 THEN LineErr("MissingSize", <<>>, 166)
    ELSE LET size == ParseI64(parts[5])
         IN  IF ~size.ok THEN LineErr("InvalidSize", parts[5], 167)
             ELSE IF Len(parts) < 6 THEN LineErr("MissingMonth", <<>>, 172)
             ELSE IF Len(parts) < 7 THEN LineErr("MissingDay", <<>>, 173)
             ELSE IF Len(parts) < 8 THEN LineErr("MissingTimestamp", <<>>, 174)
             ELSE ClassifyName(Drop(parts, 8), size.val)

\* parse_line from the link count on.
ClassifyColumns(parts) ==
    IF Len(parts) < 2 THEN LineErr("MissingLinkCount", <<>>, 162)
    ELSE IF Len(parts) < 3 THEN LineErr("MissingOwner", <<>>, 163)
    ELSE IF Len(parts) < 4 THEN LineErr("MissingGroup", <<>>, 164)
    ELSE IF Len(parts) < 5 THEN LineErr("MissingSize", <<>>, 166)
    ELSE LET size == ParseI64(parts[5])
         IN  IF ~size.ok THEN LineErr("InvalidSize", parts[5], 167)
             ELSE IF Len(parts) < 6 THEN LineErr("MissingMonth", <<>>, 172)
             ELSE IF Len(parts) < 7 THEN LineErr("MissingDay", <<>>, 173)
             ELSE IF Len(parts) < 8 THEN LineErr("MissingTimestamp", <<>>, 174)
             ELSE ClassifyName(Drop(parts, 8), size.val)

parse_line(line) ==
    IF line = <<>> \/ StartsWith(line, B("total ")) THEN LineSkip(147)
    ELSE LET parts == split_whitespace(line)
         IN  IF parts = <<>> THEN LineErr("MissingFileMode", <<>>, 151)
             ELSE IF SkippedMode(parts[1]) # 0 THEN LineSkip(SkippedMode(parts[1]))
             ELSE ClassifyColumns(parts)

\* Error::new(kind, line)
Error(kind, tok, line) == [ok |-> FALSE, kind |-> kind, token |-> tok, line |-> line]


----------------------------------------------------------------------------
(* The Line Classifier on its own, as the loop of from_str calls it: on the *)
(* trimmed line.  A line is its header columns (the first `k` of mode,      *)
(* link count, owner, group, size, month, day, time) joined by `sep`, then  *)
(* for k = 8 `sep` and the name region, behind the padding `lead`.          *)

Modes ==
    { B("-rw-r--r--"), B("drwxr-xr-x"), B("lrwxrwxrwx"), B("brw-rw----"),
      B("crw-rw----"), B("l"), B("lrwxrwxrw"), B("brw-rw----+"), B("total") }

ValidSizes ==
    { B("0"), B("16"), B("4096"), B("-5"), B("+7"), B("007"), B("-0"),
      B("9223372036854775807"), B("-9223372036854775808") }

InvalidSizes ==
    { B("8,"), B("a"), B("-"), B("+"), B("1.5"), B("--1"),
      B("9223372036854775808"), B("-9223372036854775809") }

Seps == { <<SPACE>>, <<SPACE, SPACE>>, <<TAB>> }

Leads == { <<>>, <<SPACE, TAB>> }

ColumnRegions ==
    { <<>>, B("a"), B("a/"), B("a  b\t c"), B("/"), B("//") \o <<SPACE>>,
      EAcute, <<APOSTROPHE>> \o EAcute \o <<APOSTROPHE>> }

RegionAlphabet == {QUOTE, APOSTROPHE, BACKSLASH, SLASH, DOT, SPACE, Code("n")}

RECURSIVE JoinWith(_, _)
JoinWith(parts, sep) ==
    IF parts = <<>> THEN <<>>
    ELSE IF Len(parts) = 1 THEN parts[1]
    ELSE parts[1] \o sep \o JoinWith(Tail(parts), sep)

Header(d) ==
    << d.mode, B("1"), B("u"), B("u"), d.size, B("Jan"), B("1"), B("00:01") >>

LineText(d) ==
    d.lead \o JoinWith(SubSeq(Header(d), 1, d.k), d.sep)
           \o (IF d.k = 8 THEN d.sep \o d.region ELSE <<>>)

LineDescs ==
    [fam : {"columns"}, mode : Modes, k : 1..7, size : ValidSizes \cup InvalidSizes,
     sep : Seps, lead : Leads, region : {<<>>}]
    \cup
    [fam : {"columns"}, mode : Modes, k : {8}, size : ValidSizes \cup InvalidSizes,
     sep : Seps, lead : Leads, region : ColumnRegions]
    \cup
    [fam : {"name"}, mode : {B("-rw-r--r--"), B("crw-rw----")}, k : {8},
     size : {B("16")}, sep : {<<SPACE>>}, lead : {<<>>},
     region : AllStrings(RegionAlphabet, MaxRegionLen)]

InitLine ==
    /\ pc = "line"
    /\ g \in LineDescs
    /\ input = LineText(g)
    /\ rest = <<>>
    /\ files = <<>>
    /\ folders = <<>>
    /\ visited = 0
    /\ result = NoResult

\* The body of the `for` loop of from_str on one line, up to the `?`: the
\* trimmed line and what parse_line makes of it.
ClassifyLine ==
    /\ pc = "line"
    /\ \E line \in {Trim(input)} :
       \E parsed \in {parse_line(line)} :
           result' = [line |-> line, parsed |-> parsed]
    /\ pc' = "line_done"
    /\ UNCHANGED <<g, input, rest, files, folders, visited>>

NextLine == ClassifyLine

SpecLine == InitLine /\ [][NextLine]_vars


----------------------------------------------------------------------------
(* Listing Parser. *)

\* StripMarker knowing the LF form of the marker only.
StripMarkerLFOnly(s) == IF StartsWith(s, <<BACKSLASH, LF>>) THEN Drop(s, 2) ELSE s

\* s.strip_prefix("\\\r\n").or_else(|| s.strip_prefix("\\\n")).unwrap_or(s)
StripMarker(s) ==
    IF StartsWith(s, <<BACKSLASH, CR, LF>>) THEN Drop(s, 3)
    ELSE IF StartsWith(s, <<BACKSLASH, LF>>) THEN Drop(s, 2)
    ELSE s

\* One line as str::lines yields it: a CR right before the LF goes with it.
StripCR(line) ==
    IF EndsWithByte(line, CR) THEN SubSeq(line, 1, Len(line) - 1) ELSE line

\* The position of the first LF from i on; 0 when there is none.
RECURSIVE FindLF(_, _)
FindLF(s, i) ==
    IF i > Len(s) THEN 0 ELSE IF s[i] = LF THEN i ELSE FindLF(s, i + 1)

\* str::lines from position i on: split after each LF; the last line needs no
\* LF, and a CR that ends it with no LF after it stays (trim() removes it
\* later either way).
RECURSIVE LinesFrom(_, _)
LinesFrom(s, i) ==
    LET feed == FindLF(s, i)
    IN  IF i > Len(s) THEN <<>>
        ELSE IF feed = 0 THEN <<SubSeq(s, i, Len(s))>>
        ELSE <<StripCR(SubSeq(s, i, feed - 1))>> \o LinesFrom(s, feed + 1)

Lines(s) == LinesFrom(s, 1)

LsOutputFile(name, size) == [name |-> name, size_bytes |-> size]

\* InsertFile keeping one entry per name.
RECURSIVE InsertFileMerging(_, _)
InsertFileMerging(sorted, x) ==
    IF sorted = <<>> THEN <<x>>
    ELSE IF StrCmp(x.name, sorted[1].name) < 0 THEN <<x>> \o sorted
    ELSE IF StrCmp(x.name, sorted[1].name) = 0 THEN <<x>> \o Tail(sorted)
    ELSE <<sorted[1]>> \o InsertFileMerging(Tail(sorted), x)

\* Where a stable sort puts x into the sorted `sorted`: behind every element
\* that is not greater.
RECURSIVE InsertFile(_, _)
InsertFile(sorted, x) ==
    IF sorted = <<>> THEN <<x>>
    ELSE IF StrCmp(x.name, sorted[1].name) < 0 THEN <<x>> \o sorted
    ELSE <<sorted[1]>> \o InsertFile(Tail(sorted), x)

\* files.sort_by(|a, b| a.name.cmp(&b.name)), a stable sort.
RECURSIVE SortFilesInto(_, _)
SortFilesInto(sorted, todo) ==
    IF todo = <<>> THEN sorted
    ELSE SortFilesInto(InsertFile(sorted, todo[1]), Tail(todo))

\* SortFiles leaving the order as it is.
SortFilesNone(fs) == fs

SortFiles(fs) == SortFilesInto(<<>>, fs)

RECURSIVE InsertFolder(_, _)
InsertFolder(sorted, x) ==
    IF sorted = <<>> THEN <<x>>
    ELSE IF StrCmp(x, sorted[1]) < 0 THEN <<x>> \o sorted
    ELSE <<sorted[1]>> \o InsertFolder(Tail(sorted), x)

\* folders.sort()
RECURSIVE SortFoldersInto(_, _)
SortFoldersInto(sorted, todo) ==
    IF todo = <<>> THEN sorted
    ELSE SortFoldersInto(InsertFolder(sorted, todo[1]), Tail(todo))

SortFolders(ds) == SortFoldersInto(<<>>, ds)

\* The locals of from_str while the loop runs.
Locals(fs, ds, n) ==
    [files |-> fs, folders |-> ds, visited |-> n, failed |-> FALSE, error |-> NoResult]

\* VisitLine putting the line as read, not as trimmed, into the error.
VisitLineRawLine(acc, raw_line) ==
    LET line   == Trim(raw_line)
        parsed == parse_line(line)
        seen   == [acc EXCEPT !.visited = @ + 1]
    IN  CASE parsed.tag = "err" ->
               [seen EXCEPT !.failed = TRUE,
                            !.error = Error(parsed.kind, parsed.token, raw_line)]
          [] parsed.tag = "file" ->
               [seen EXCEPT !.files = Append(@, LsOutputFile(parsed.name, parsed.size))]
          [] parsed.tag = "folder" ->
               [seen EXCEPT !.folders = Append(@, parsed.name)]
          [] OTHER -> seen

\* The body of the `for` loop on one raw line.
VisitLine(acc, raw_line) ==
    LET line   == Trim(raw_line)
        parsed == parse_line(line)
        seen   == [acc EXCEPT !.visited = @ + 1]
    IN  CASE parsed.tag = "err" ->
               [seen EXCEPT !.failed = TRUE,
                            !.error = Error(parsed.kind, parsed.token, line)]
          [] parsed.tag = "file" ->
               [seen EXCEPT !.files = Append(@, LsOutputFile(parsed.name, parsed.size))]
          [] parsed.tag = "folder" ->
               [seen EXCEPT !.folders = Append(@, parsed.name)]
          [] OTHER -> seen

LsOutput(fs, ds) == Ok([files |-> fs, folders |-> ds])

\* The whole of from_str as a function of its argument.
RECURSIVE RunLoop(_, _)
RunLoop(acc, lines) ==
    IF acc.failed \/ lines = <<>> THEN acc
    ELSE RunLoop(VisitLine(acc, lines[1]), Tail(lines))

from_str(s) ==
    LET acc == RunLoop(Locals(<<>>, <<>>, 0), Lines(StripMarker(s)))
    IN  IF acc.failed THEN acc.error
        ELSE LsOutput(SortFiles(acc.files), SortFolders(acc.folders))

----------------------------------------------------------------------------
(* from_str step by step, on listings of up to MaxLines lines of LineSet,   *)
(* ended by LF or CR LF, the last one possibly not ended.                   *)

FileB == B("-rw-r--r-- 1 u u 16 Jan 1 0:01 b")
FileA == B("-rw-r--r-- 1 u u 8 Jan 1 0:02 a")
FileQuotedA == B("-rw-r--r-- 1 u u 0 Jan 1 0:02 'a'")
FolderB == B("drwxr-xr-x 2 u u 4096 Jan 1 2:00 b/")
FolderQuotedA == B("  drwxr-xr-x  2 u u 4096 Jan  1 2:00 \"a\"/")
FolderDot == B("drwxr-xr-x 2 u u 4096 Jan 1 2:00 ./")
FileEscapedDotDot == B("-rw-r--r-- 1 u u 1 Jan 1 2:00 \"\\..\"")
Symlink == B("lrwxrwxrwx 1 u u 6 Jan 1 2:04 k -> t")
BrokenLine == B("  broken line\t")
DeviceSize == B("drw-rw---- 1 u u 8, 0 Jan 1 2:00 sda")
TotalLine == B("total 16")
MarkerLine == <<BACKSLASH>>

LineSet ==
    { MarkerLine, TotalLine, <<>>, FileB, FileA, FileQuotedA, FolderB,
      FolderQuotedA, FolderDot, FileEscapedDotDot, Symlink, BrokenLine, DeviceSize }

Terminators == { <<LF>>, <<CR, LF>> }

RECURSIVE Listing(_, _, _)
Listing(lines, term, final) ==
    IF lines = <<>> THEN <<>>
    ELSE IF Len(lines) = 1 THEN lines[1] \o (IF final THEN term ELSE <<>>)
    ELSE lines[1] \o term \o Listing(Tail(lines), term, final)

Init ==
    /\ pc = "start"
    /\ g \in [lines : UNION {[1..n -> LineSet] : n \in 0..MaxLines},
              term : Terminators, final : BOOLEAN]
    /\ input = Listing(g.lines, g.term, g.final)
    /\ rest = <<>>
    /\ files = <<>>
    /\ folders = <<>>
    /\ visited = 0
    /\ result = NoResult

\* from_str down to the `for`.
Begin ==
    /\ pc = "start"
    /\ rest' = Lines(StripMarker(input))
    /\ files' = <<>>
    /\ folders' = <<>>
    /\ pc' = "loop"
    /\ UNCHANGED <<g, input, visited, result>>

\* One pass of the `for` loop; the `?` returns the error at once.
Visit ==
    /\ pc = "loop"
    /\ rest # <<>>
    /\ \E acc \in {VisitLine(Locals(files, folders, visited), Head(rest))} :
           /\ files' = acc.files
           /\ folders' = acc.folders
           /\ visited' = acc.visited
           /\ result' = IF acc.failed THEN acc.error ELSE result
           /\ pc' = IF acc.failed THEN "done" ELSE "loop"
    /\ rest' = Tail(rest)
    /\ UNCHANGED <<g, input>>

\* The loop is over: sort both and return.
Finish ==
    /\ pc = "loop"
    /\ rest = <<>>
    /\ files' = SortFiles(files)
    /\ folders' = SortFolders(folders)
    /\ result' = LsOutput(files', folders')
    /\ pc' = "done"
    /\ UNCHANGED <<g, input, rest, visited>>

Next == Begin \/ Visit \/ Finish

Spec == Init /\ [][Next]_vars


----------------------------------------------------------------------------
(* What the properties say of an input, read off the way it was built.      *)

Range(s) == {s[i] : i \in DOMAIN s}

SeqToBag(s) == [x \in Range(s) |-> Cardinality({i \in DOMAIN s : s[i] = x})]

IsLinkOrDeviceMode(mode) ==
    Len(mode) = 10 /\ mode[1] \in {Code("l"), Code("b"), Code("c")}

\* A line description whose text starts with `total `.
IsTotalHeader(d) == d.mode = B("total") /\ d.k >= 2 /\ d.sep[1] = SPACE

\* The name region with its White_Space runs collapsed to one space and none
\* left at either end; `gap` says White_Space was passed since the last byte
\* written to `out`.
RECURSIVE CollapseFrom(_, _, _, _)
CollapseFrom(s, i, out, gap) ==
    IF i > Len(s) THEN out
    ELSE IF s[i] \in {SPACE, TAB} THEN CollapseFrom(s, i + 1, out, TRUE)
    ELSE CollapseFrom(s, i + 1,
                      (IF gap /\ out # <<>> THEN Append(out, SPACE) ELSE out) \o <<s[i]>>,
                      FALSE)

Collapsed(region) == CollapseFrom(region, 1, <<>>, FALSE)

RECURSIVE WithoutTrailingSlashes(_)
WithoutTrailingSlashes(s) ==
    IF s # <<>> /\ s[Len(s)] = SLASH
    THEN WithoutTrailingSlashes(SubSeq(s, 1, Len(s) - 1))
    ELSE s

Wrapped(raw, q) == Len(raw) >= 2 /\ raw[1] = q /\ raw[Len(raw)] = q

Dots == { <<DOT>>, <<DOT, DOT>> }

\* A full line (all eight header columns, a size that parses) that is not
\* skipped for its first column.
IsNamedLine(d) ==
    /\ d.k = 8
    /\ d.size \in ValidSizes
    /\ ~IsLinkOrDeviceMode(d.mode)
    /\ ~IsTotalHeader(d)

\* The lines of a listing as built, each without the padding it was given.
TrimmedOf(line) ==
    IF line = BrokenLine THEN B("broken line")
    ELSE IF line = FolderQuotedA THEN B("drwxr-xr-x  2 u u 4096 Jan  1 2:00 \"a\"/")
    ELSE line

\* The listing's first line is a continuation marker: `\` and its line end.
HasMarker(d) ==
    /\ d.lines # <<>>
    /\ d.lines[1] = MarkerLine
    /\ (Len(d.lines) >= 2 \/ d.final)

\* The lines behind the marker, if there is one.
BodyLines(d) == IF HasMarker(d) THEN Tail(d.lines) ELSE d.lines

\* What each line of LineSet is to be classified as.
Expected(line) ==
    CASE line = FileB -> LineFile(B("b"), I64(FALSE, <<1, 6>>))
      [] line = FileA -> LineFile(B("a"), I64(FALSE, <<8>>))
      [] line = FileQuotedA -> LineFile(B("a"), I64(FALSE, <<0>>))
      [] line = FolderB -> LineFolder(B("b"))
      [] line = FolderQuotedA -> LineFolder(B("a"))
      [] line = MarkerLine -> LineErr("MissingLinkCount", <<>>, 162)
      [] line = BrokenLine -> LineErr("MissingOwner", <<>>, 163)
      [] line = DeviceSize -> LineErr("InvalidSize", B("8,"), 167)
      [] OTHER -> [tag |-> "skip"]

\* What each of `lines` is to be classified as.
ExpectedLines(lines) == [i \in 1..Len(lines) |-> Expected(lines[i])]

Classified(d) == ExpectedLines(BodyLines(d))

\* The malformed ones among the classified lines `cl`.
Malformed(cl) == {i \in 1..Len(cl) : cl[i].tag = "err"}

\* The file entries, and the folder names, of the first n classified lines.
RECURSIVE FilesOf(_, _)
FilesOf(cl, n) ==
    IF n = 0 THEN <<>>
    ELSE FilesOf(cl, n - 1) \o
         (IF cl[n].tag = "file" THEN <<LsOutputFile(cl[n].name, cl[n].size)>> ELSE <<>>)

RECURSIVE FoldersOf(_, _)
FoldersOf(cl, n) ==
    IF n = 0 THEN <<>>
    ELSE FoldersOf(cl, n - 1) \o (IF cl[n].tag = "folder" THEN <<cl[n].name>> ELSE <<>>)

----------------------------------------------------------------------------
(* The properties. *)

\* C1: from_str is fail-fast.  It returns Err exactly when some line of the
\* listing is malformed; the error then carries the trimmed text of the first
\* malformed line and the classifier's kind for it, no line behind it was
\* handed to parse_line, and what is returned is the error alone.
C1_FailFast ==
    pc = "done" =>
        LET cl  == Classified(g)
            bad == Malformed(cl)
        IN  /\ result.ok <=> bad = {}
            /\ bad # {} =>
                  LET first == CHOOSE i \in bad : \A j \in bad : i <= j
                  IN  /\ result = Error(cl[first].kind, cl[first].token,
                                        TrimmedOf(BodyLines(g)[first]))
                      /\ visited = first
                      /\ BodyLines(g)[first] = BrokenLine =>
                            /\ result.line = B("broken line")
                            /\ result.kind = "MissingOwner"

C1_Witness ==
    /\ pc = "done"
    /\ g.lines = <<FileB, BrokenLine, DeviceSize>>
    /\ ~result.ok
    /\ result.line = B("broken line")
    /\ visited = 2

\* C2: on success `files` is sorted ascending by name, `folders` is sorted
\* ascending, and neither holds an entry named "." or "..", however the line
\* wrote it.
C2_SortedNoDots ==
    (pc = "done" /\ result.ok) =>
        LET fs == result.val.files
            ds == result.val.folders
        IN  /\ \A i, j \in 1..Len(fs) : i < j => StrCmp(fs[i].name, fs[j].name) <= 0
            /\ \A i, j \in 1..Len(ds) : i < j => StrCmp(ds[i], ds[j]) <= 0
            /\ \A i \in 1..Len(fs) : fs[i].name \notin Dots
            /\ \A i \in 1..Len(ds) : ds[i] \notin Dots

C2_Witness ==
    /\ pc = "done"
    /\ result.ok
    /\ g.lines = <<FileB, FileEscapedDotDot, FileA>>
    /\ result.val.files = <<LsOutputFile(B("a"), I64(FALSE, <<8>>)),
                            LsOutputFile(B("b"), I64(FALSE, <<1, 6>>))>>

\* C3: a line whose first column is a 10-byte mode starting with l, b or c
\* is classified as skip, whatever columns follow.
C3_LinksAndDevicesSkipped ==
    (pc = "line_done" /\ IsLinkOrDeviceMode(g.mode)) => result.parsed.tag = "skip"

C3_Witness ==
    /\ pc = "line_done"
    /\ g.mode = B("brw-rw----")
    /\ g.size = B("8,")
    /\ g.k = 8
    /\ result.parsed.tag = "skip"

\* C4 as claimed: on every line that is neither blank nor a `total ` header, a
\* size column that is present and is no i64 fails with InvalidSize carrying it.
C4_AsClaimed ==
    (pc = "line_done" /\ ~IsTotalHeader(g) /\ g.k >= 5 /\ g.size \in InvalidSizes) =>
        /\ result.parsed.tag = "err"
        /\ result.parsed.kind = "InvalidSize"
        /\ result.parsed.token = g.size

\* C4, amended: the same for every such line whose first column is not a
\* 10-byte mode starting with l, b or c.  A line with such a mode is skipped
\* before its size is read.
C4_InvalidSizeUnlessSkipped ==
    (pc = "line_done" /\ ~IsTotalHeader(g) /\ g.k >= 5 /\ g.size \in InvalidSizes) =>
        IF IsLinkOrDeviceMode(g.mode)
        THEN result.parsed.tag = "skip"
        ELSE /\ result.parsed.tag = "err"
             /\ result.parsed.kind = "InvalidSize"
             /\ result.parsed.token = g.size

C4_Witness ==
    /\ pc = "line_done"
    /\ g.mode = B("drwxr-xr-x")
    /\ g.size = B("8,")
    /\ g.k = 8
    /\ result.parsed.tag = "err"
    /\ result.parsed.kind = "InvalidSize"
    /\ result.parsed.token = B("8,")

\* C5: a line that is not skipped, has k < 8 columns and a size that parses
\* (when it has one) fails with the Missing* kind of its first absent column;
\* with exactly 8 columns it fails with MissingName; and a size that does not
\* parse is reported before any column missing behind it.
C5_MissingColumnKinds ==
    (pc = "line_done" /\ ~IsLinkOrDeviceMode(g.mode) /\ ~IsTotalHeader(g)) =>
        LET named == g.k = 8 /\ Collapsed(g.region) # <<>>
            kind  == IF g.k >= 5 /\ g.size \in InvalidSizes THEN "InvalidSize"
                     ELSE CASE g.k = 1 -> "MissingLinkCount"
                            [] g.k = 2 -> "MissingOwner"
                            [] g.k = 3 -> "MissingGroup"
                            [] g.k = 4 -> "MissingSize"
                            [] g.k = 5 -> "MissingMonth"
                            [] g.k = 6 -> "MissingDay"
                            [] g.k = 7 -> "MissingTimestamp"
                            [] g.k = 8 -> "MissingName"
        IN  (~named \/ g.size \in InvalidSizes) =>
                /\ result.parsed.tag = "err"
                /\ result.parsed.kind = kind

C5_Witness ==
    /\ pc = "line_done"
    /\ g.mode = B("-rw-r--r--")
    /\ g.k = 7
    /\ g.size = B("16")
    /\ result.parsed.tag = "err"
    /\ result.parsed.kind = "MissingTimestamp"


\* What C6 says parse_name makes of the joined name `raw`; <<>> where it
\* names no result.
Decoded(raw) ==
    LET inner == SubSeq(raw, 2, Len(raw) - 1)
    IN  IF Wrapped(raw, QUOTE)
        THEN IF unescape_double_quoted(inner).ok
             THEN unescape_double_quoted(inner).val
             ELSE <<>>
        ELSE IF Wrapped(raw, APOSTROPHE) THEN inner
        ELSE raw

\* C6: the name tokens of a line are joined by single spaces, its trailing
\* slashes go, and parse_name then takes the shape of what is left: within
\* double quotes the unescaped interior, else within single quotes the
\* interior as it is, else the whole unchanged (a lone or unmatched quote
\* included).
C6_NameDispatch ==
    (pc = "line_done" /\ IsNamedLine(g)) =>
        LET joined == Collapsed(g.region)
            raw    == WithoutTrailingSlashes(joined)
            p      == result.parsed
        IN  /\ p.tag \in {"file", "folder"} => p.name = Decoded(raw)
            /\ Decoded(raw) \notin (Dots \cup {<<>>}) =>
                  p.tag = IF joined[Len(joined)] = SLASH THEN "folder" ELSE "file"

C6_Witness ==
    /\ pc = "line_done"
    /\ IsNamedLine(g)
    /\ g.region = <<APOSTROPHE, BACKSLASH, Code("n"), APOSTROPHE>>
    /\ result.parsed.tag = "file"
    /\ result.parsed.name = <<BACKSLASH, Code("n")>>

\* The number of backslashes s ends with.
RECURSIVE TrailingBackslashes(_)
TrailingBackslashes(s) ==
    IF s # <<>> /\ s[Len(s)] = 92
    THEN 1 + TrailingBackslashes(SubSeq(s, 1, Len(s) - 1))
    ELSE 0

\* C7: a non-empty name written in double quotes with \\, \", \n, \r and \t
\* decodes to itself; in double quotes \n, \r, \t give LF, CR, TAB and a
\* backslash before any other byte gives that byte; an interior ending in a
\* backslash that escapes nothing fails with InvalidEscapeSequence.
C7_DoubleQuoteRoundTrip ==
    pc = "name_done" =>
        /\ (g.fam = "escaped" /\ g.s # <<>>) => result = Ok(g.s)
        /\ (g.fam = "raw" /\ Wrapped(input, QUOTE)) =>
              LET body == SubSeq(input, 2, Len(input) - 1)
              IN  /\ (Len(body) = 2 /\ body[1] = 92) =>
                        result = Ok(<< CASE body[2] = 110 -> 10
                                         [] body[2] = 114 -> 13
                                         [] body[2] = 116 -> 9
                                         [] OTHER -> body[2] >>)
                  /\ TrailingBackslashes(body) % 2 = 1 =>
                        result = Err("InvalidEscapeSequence")

C7_Witness ==
    /\ pc = "name_done"
    /\ g.fam = "escaped"
    /\ g.s = <<CR, BACKSLASH, QUOTE>>
    /\ input = <<QUOTE, BACKSLASH, Code("r"), BACKSLASH, BACKSLASH, BACKSLASH, QUOTE, QUOTE>>
    /\ result = Ok(g.s)

IsMarked(s) == StartsWith(s, <<92, 10>>) \/ StartsWith(s, <<92, 13, 10>>)

\* C8: a marker (`\` and LF, or `\`, CR and LF) in front of a text that does
\* not start with one changes nothing of the result; a `\` line anywhere
\* behind the start, a second marker included, is classified like any line,
\* and fails with MissingLinkCount and the line `\` when no line before it
\* fails.
C8_MarkerStrippedOnce ==
    pc = "done" =>
        /\ HasMarker(g) =>
              LET s == Listing(Tail(g.lines), g.term, g.final)
              IN  ~IsMarked(s) => result = from_str(s)
        /\ \A i \in 1..Len(BodyLines(g)) :
              ( /\ BodyLines(g)[i] = MarkerLine
                /\ \A j \in 1..(i - 1) :
                      BodyLines(g)[j] \notin {MarkerLine, BrokenLine, DeviceSize} )
              => result = Error("MissingLinkCount", <<>>, <<92>>)

C8_Witness ==
    /\ pc = "done"
    /\ g.lines = <<MarkerLine, FileB, FileA>>
    /\ g.term = <<CR, LF>>
    /\ result.ok
    /\ Len(result.val.files) = 2

\* C9: on success the listing holds the file entries and the folder names of
\* the lines, each as often as the lines give it, and nothing else; while the
\* loop runs, the accumulators hold those of the lines visited, in order.
C9_ListingIsTheLines ==
    LET cl == Classified(g)
        n  == Len(cl)
    IN  /\ pc = "loop" =>
              /\ files = FilesOf(cl, visited)
              /\ folders = FoldersOf(cl, visited)
        /\ (pc = "done" /\ result.ok) =>
              /\ SeqToBag(result.val.files) = SeqToBag(FilesOf(cl, n))
              /\ SeqToBag(result.val.folders) = SeqToBag(FoldersOf(cl, n))
              /\ Len(result.val.files) + Len(result.val.folders)
                    = Cardinality({i \in 1..n : cl[i].tag \in {"file", "folder"}})

C9_Witness ==
    /\ pc = "done"
    /\ result.ok
    /\ g.lines = <<FileB, FolderB, FileB>>
    /\ Len(result.val.files) = 2
    /\ result.val.files[1] = result.val.files[2]
    /\ result.val.folders = <<B("b")>>

\* C10: no entry has an empty name; parse_line never returns from its branch
\* for a directory with an empty name; and a full line whose name is slashes
\* only fails with MissingName.
C10_NoEmptyName ==
    pc = "line_done" =>
        LET p == result.parsed
        IN  /\ p.tag \in {"file", "folder"} => p.name # <<>>
            /\ p.at # 196
            /\ ( /\ IsNamedLine(g)
                 /\ Collapsed(g.region) # <<>>
                 /\ \A i \in 1..Len(Collapsed(g.region)) : Collapsed(g.region)[i] = SLASH )
               => (p.tag = "err" /\ p.kind = "MissingName")

C10_Witness ==
    /\ pc = "line_done"
    /\ g.mode = B("drwxr-xr-x")
    /\ g.size = B("4096")
    /\ g.region = B("//") \o <<SPACE>>
    /\ result.parsed.tag = "err"
    /\ result.parsed.kind = "MissingName"

====
